---- MODULE Spec2Model ----
(***************************************************************************)
(* The result-caching layer of the Linkding launcher plugin                *)
(* (src/linkding/__init__.py; src/paperless/__init__.py carries the same   *)
(* get_results / refresh_cache / fetch code): the paginated fetch, the     *)
(* cache file, the TTL check, the background cache_routine, the archive    *)
(* and delete actions, the debounce loop of handleTriggerQuery and the     *)
(* query filter; the auto_cache property, the cache_routine and the tag    *)
(* and document-type lookups of the Paperless plugin; and the search and   *)
(* the api_key of the Sonarr plugin (src/sonarr/__init__.py).              *)
(*                                                                         *)
(* Time is counted in minutes (cache_length is in minutes; the hourly      *)
(* sleep of cache_routine is 60).  Strings are sequences of one-character  *)
(* strings.  A bookmark on the server is known by its id; its fields are   *)
(* given by Bookmark(id).  The text of the cache file is the sequence of   *)
(* the ids of the dumped list followed by EndOfJson.                       *)
(***************************************************************************)
EXTENDS Integers, Sequences, FiniteSets, TLC

VARIABLES
    cache_results_,   \* self._cache_results
    cache_length_,    \* self._cache_length
    auto_cache_,      \* self._auto_cache
    thread_stop,      \* self.thread_stop (Event): TRUE when set
    cache_timeout,    \* self.cache_timeout
    cache_file,       \* the file at self.cache_file: [exists, text]
    config,           \* the host's persisted configuration (readConfig/writeConfig)
    now,              \* datetime.now()
    ticks,            \* how often the clock has advanced
    remote,           \* the bookmarks on the linkding server, in list order
    failures,         \* non-success answers the server has given to list requests
    shown,            \* ids of the bookmarks for which gen_items has built an item
    refreshOffered,   \* a "Refresh cache" item has been added to some query
    missCompleted,    \* some get_results has missed and completed its refresh
    wakeAt,           \* when the sleep(3600) of cache_routine ends
    th,               \* per thread: position and locals of the running handler
    fquery,           \* filter check: the query string
    fitem,            \* filter check: the item
    fout,             \* filter check: the outcome of the filter
    cache_threads,    \* how many background threads the plugin instance has started
    lookup,           \* Paperless: the lookup files, the id being resolved, the outcome
    api               \* Sonarr: self._api_key, the key in self.headers, the key last sent

vars == <<cache_results_, cache_length_, auto_cache_, thread_stop, cache_timeout,
          cache_file, config, now, ticks, remote, failures, shown, refreshOffered,
          missCompleted, wakeAt, th, fquery, fitem, fout, cache_threads, lookup, api>>

cfgVars == <<cache_results_, cache_length_, auto_cache_, thread_stop, config>>
filterVars == <<fquery, fitem, fout>>
auxVars == <<cache_threads, lookup, api>>

(***************************************************************************)
(* Bounds of the model and constants of the program.                       *)
(***************************************************************************)
NItems == 3
PageSize == 2
MaxFailures == 1
MaxTicks == 2
MaxQueryLen == 2
DebounceChecks == 50
DefaultCacheLength == 60
RoutineSleep == 60

Null == -1
EndOfJson == 0

Min(a, b) == IF a < b THEN a ELSE b

(***************************************************************************)
(* Strings.                                                                *)
(***************************************************************************)
Letters == {"a", "A", "b", " "}

\* str.lower()
Lower(c) == IF c = "A" THEN "a" ELSE IF c = "B" THEN "b" ELSE c

LowerStr(s) == [k \in 1..Len(s) |-> Lower(s[k])]

RECURSIVE LStrip(_)
LStrip(s) == IF s # <<>> /\ Head(s) = " " THEN LStrip(Tail(s)) ELSE s

RECURSIVE RStrip(_)
RStrip(s) == IF s # <<>> /\ s[Len(s)] = " " THEN RStrip(SubSeq(s, 1, Len(s) - 1)) ELSE s

\* str.strip()
Strip(s) == RStrip(LStrip(s))

\* sep.join(parts)
RECURSIVE Join(_, _)
Join(parts, sep) ==
    IF parts = <<>> THEN <<>>
    ELSE IF Len(parts) = 1 THEN parts[1]
    ELSE parts[1] \o sep \o Join(Tail(parts), sep)

\* needle in hay
Contains(hay, needle) ==
    \E k \in 0..(Len(hay) - Len(needle)) : SubSeq(hay, k + 1, k + Len(needle)) = needle

StringsUpTo(n) == UNION {[1..k -> Letters] : k \in 0..n}

(***************************************************************************)
(* Bookmarks and the query filter.                                         *)
(***************************************************************************)
Bookmark(id) ==
    [id |-> id,
     url |-> <<"b">>,
     title |-> IF id % 2 = 1 THEN <<"a">> ELSE <<"A">>,
     tag_names |-> IF id % 2 = 1 THEN <<>> ELSE << <<"b">>, <<"a">> >>]

create_filters(item) ==
    Join(<<item.url, item.title, Join(item.tag_names, <<",">>)>>, <<",">>)

\* the condition of the generator in handleTriggerQuery and handleGlobalQuery
Matches(stripped, item) == Contains(create_filters(item), stripped)

\* the ids gen_items builds items for, in order
FilterIds(data, stripped) == SelectSeq(data, LAMBDA id : Matches(stripped, Bookmark(id)))

SeqRange(s) == {s[k] : k \in 1..Len(s)}

\* the filter of the Sonarr plugin's search: the title lowercased, the query as typed
SonarrMatches(stripped, item) == Contains(LowerStr(item.title), stripped)

NoOutcome == [by |-> "none", included |-> FALSE]

\* the filter of handleTriggerQuery applied to one item
LinkdingFilter ==
    /\ fout = NoOutcome
    /\ Strip(fquery) # <<>>
    /\ fout' = [by |-> "linkding", included |-> Matches(Strip(fquery), fitem)]
    /\ UNCHANGED <<cache_results_, cache_length_, auto_cache_, thread_stop, config,
                   cache_timeout, cache_file, now, ticks, remote, failures, shown,
                   refreshOffered, missCompleted, wakeAt, th, fquery, fitem, auxVars>>

SonarrFilter ==
    /\ fout = NoOutcome
    /\ Strip(fquery) # <<>>
    /\ fout' = [by |-> "sonarr", included |-> SonarrMatches(Strip(fquery), fitem)]
    /\ UNCHANGED <<cache_results_, cache_length_, auto_cache_, thread_stop, config,
                   cache_timeout, cache_file, now, ticks, remote, failures, shown,
                   refreshOffered, missCompleted, wakeAt, th, fquery, fitem, auxVars>>

(***************************************************************************)
(* The cache file: json.dumps, json.load and writes through a handle       *)
(* opened with mode "w".                                                   *)
(***************************************************************************)
json_dumps(data) == data \o <<EndOfJson>>

\* json.load succeeds on exactly one document
IsJson(text) ==
    /\ text # <<>>
    /\ text[Len(text)] = EndOfJson
    /\ \A k \in 1..(Len(text) - 1) : text[k] # EndOfJson

json_load(text) == SubSeq(text, 1, Len(text) - 1)

\* a write at offset 0 of a handle whose file holds `old`
WriteAtStart(old, text) ==
    IF Len(old) > Len(text) THEN text \o SubSeq(old, Len(text) + 1, Len(old)) ELSE text

Absent == [exists |-> FALSE, text |-> <<>>]

(***************************************************************************)
(* The linkding server's paginated list.                                   *)
(***************************************************************************)
FirstUrl == 0

PageResults(list, url) == SubSeq(list, url + 1, Min(url + PageSize, Len(list)))

PageNext(list, url) == IF url + PageSize < Len(list) THEN url + PageSize ELSE Null

RECURSIVE RemoveId(_, _)
RemoveId(list, id) ==
    IF list = <<>> THEN <<>>
    ELSE IF Head(list) = id THEN Tail(list)
    ELSE <<Head(list)>> \o RemoveId(Tail(list), id)

(***************************************************************************)
(* Checks standing apart from the cache: the lookup files of the Paperless *)
(* plugin and the request headers of the Sonarr plugin, before anything    *)
(* has used them.                                                          *)
(***************************************************************************)
NoFile == [exists |-> FALSE, entries |-> {}]

NoName == [of |-> "none", id |-> 0]

NoResult == [err |-> "none", name |-> NoName]

NoLookup == [tag_file |-> NoFile, type_file |-> NoFile, kind |-> "none", id |-> 0,
             out |-> NoResult]

\* the Sonarr plugin constructed with api_key `key` stored: self._api_key, the
\* X-Api-Key of self.headers, no request sent yet, and the stored api_key
SonarrInit(key) == [key |-> key, headers |-> key, sent |-> Null, stored |-> <<key>>]

NoApi == SonarrInit(0)

(***************************************************************************)
(* Threads.                                                                *)
(***************************************************************************)
Threads == {"q1", "q2", "bg"}

Fresh ==
    [pc |-> "idle", op |-> "none", i |-> 0, valid |-> TRUE, qs |-> <<>>,
     purpose |-> "none", url |-> Null, acc |-> <<>>, gets |-> 0, reads |-> 0,
     writes |-> 0, failed |-> FALSE, resp |-> "none", adds |-> 0, added |-> <<>>,
     err |-> "none", orphan |-> FALSE, hit |-> "none", arg |-> 0, req |-> "none",
     caching |-> "none", fetches |-> 0, inv_at |-> Null, inv_pc |-> "none",
     action |-> "none"]

Free(t) == th[t].pc \in {"idle", "done"}

Set(t, r) == th' = [th EXCEPT ![t] = r]

(***************************************************************************)
(* Plugin.__init__: readConfig(key) or default.                            *)
(***************************************************************************)
\* a constructor that takes the default whatever is stored
OrBoolM(stored, default) == default

\* a stored value is <<>> (no value stored) or <<v>>; `x or default` of Python
OrBool(stored, default) == IF stored # <<>> /\ stored[1] THEN stored[1] ELSE default

OrInt(stored, default) == IF stored # <<>> /\ stored[1] # 0 THEN stored[1] ELSE default

\* a setter that looks at the caching setting only
StopFlagM(auto, caching) == ~caching

\* thread_stop as the auto_cache setter leaves it
StopFlag(auto, caching) == ~(auto /\ caching)

InitPlugin(stored) ==
    /\ config = stored
    /\ cache_results_ = OrBool(stored.cache_results, TRUE)
    /\ cache_length_ = OrInt(stored.cache_length, DefaultCacheLength)
    /\ auto_cache_ = OrBool(stored.auto_cache, FALSE)
    /\ thread_stop = ~OrBool(stored.auto_cache, FALSE)
    /\ cache_threads = 1
    /\ cache_timeout = now
    /\ wakeAt = 0
    /\ th = [t \in Threads |-> IF t = "bg" THEN [Fresh EXCEPT !.pc = "routine", !.op = "routine"]
                                ELSE Fresh]

(***************************************************************************)
(* The setters of the configuration properties.                            *)
(***************************************************************************)
\* a cleanup that leaves the file where it is
UnlinkM(file) == file

\* Path.unlink(missing_ok=True): no file afterwards, whether or not there was one
Unlink(file) == Absent

\* cache_results setter
SetCacheResults(value) ==
    /\ cache_results_' = value
    /\ IF ~value
         THEN /\ cache_file' = Unlink(cache_file)
              /\ th' = [t \in Threads |->
                          IF th[t].pc = "write_close" THEN [th[t] EXCEPT !.orphan = TRUE]
                          ELSE th[t]]
         ELSE UNCHANGED <<cache_file, th>>
    /\ config' = [config EXCEPT !.cache_results = <<value>>]
    /\ UNCHANGED <<cache_length_, auto_cache_, thread_stop, cache_timeout, now, ticks,
                   remote, failures, shown, refreshOffered, missCompleted, wakeAt, filterVars, auxVars>>

\* cache_length setter
SetCacheLength(value) ==
    /\ cache_length_' = value
    /\ cache_timeout' = now
    /\ config' = [config EXCEPT !.cache_length = <<value>>]
    /\ UNCHANGED <<cache_results_, auto_cache_, thread_stop, cache_file, now, ticks,
                   remote, failures, shown, refreshOffered, missCompleted, wakeAt, th, filterVars, auxVars>>

\* a setter that starts a background thread whenever auto_cache is switched on
ThreadsStartedM(value) == IF value THEN 1 ELSE 0

\* the threads the auto_cache setter starts: it sets or clears thread_stop and
\* creates no Thread
ThreadsStarted(value) == 0

\* auto_cache setter
SetAutoCache(value) ==
    /\ auto_cache_' = value
    /\ thread_stop' = StopFlag(value, cache_results_)
    /\ cache_threads' = cache_threads + ThreadsStarted(value)
    /\ config' = [config EXCEPT !.auto_cache = <<value>>]
    /\ UNCHANGED <<cache_results_, cache_length_, cache_timeout, cache_file, now, ticks,
                   remote, failures, shown, refreshOffered, missCompleted, wakeAt, th,
                   filterVars, lookup, api>>

\* the host ends the process and starts the plugin again: __init__ runs on the
\* stored configuration; the cache file is as the old process left it
Restart ==
    /\ cache_results_' = OrBool(config.cache_results, TRUE)
    /\ cache_length_' = OrInt(config.cache_length, DefaultCacheLength)
    /\ auto_cache_' = OrBool(config.auto_cache, FALSE)
    /\ thread_stop' = ~OrBool(config.auto_cache, FALSE)
    /\ cache_threads' = 1
    /\ cache_timeout' = now
    /\ wakeAt' = 0
    /\ th' = [t \in Threads |-> IF t = "bg" THEN [Fresh EXCEPT !.pc = "routine", !.op = "routine"]
                                 ELSE Fresh]
    /\ shown' = {}
    /\ refreshOffered' = FALSE
    /\ missCompleted' = FALSE
    /\ UNCHANGED <<config, cache_file, now, ticks, remote, failures, filterVars, lookup, api>>

(***************************************************************************)
(* The clock.                                                              *)
(***************************************************************************)
TickSteps == {1, RoutineSleep}

Tick(d) ==
    /\ ticks < MaxTicks
    /\ now' = now + d
    /\ ticks' = ticks + 1
    /\ UNCHANGED <<cfgVars, cache_timeout, cache_file, remote, failures, shown,
                   refreshOffered, missCompleted, wakeAt, th, filterVars, auxVars>>

(***************************************************************************)
(* handleTriggerQuery.                                                     *)
(***************************************************************************)
\* the else branch: an informational item, and the "Refresh cache" item
HandleTriggerBlank(t, s) ==
    /\ Free(t)
    /\ Strip(s) = <<>>
    /\ Set(t, [Fresh EXCEPT !.pc = "done", !.op = "trigger", !.qs = s,
                            !.adds = IF cache_results_ THEN 2 ELSE 1])
    /\ refreshOffered' = (refreshOffered \/ cache_results_)
    /\ UNCHANGED <<cfgVars, cache_timeout, cache_file, now, ticks, remote, failures,
                   shown, missCompleted, wakeAt, filterVars, auxVars>>

HandleTriggerQuery(t, s) ==
    /\ Free(t)
    /\ Strip(s) # <<>>
    /\ Set(t, [Fresh EXCEPT !.pc = "debounce", !.op = "trigger", !.qs = s])
    /\ UNCHANGED <<cfgVars, cache_timeout, cache_file, now, ticks, remote, failures,
                   shown, refreshOffered, missCompleted, wakeAt, filterVars, auxVars>>

\* the host invalidates a query that is being handled
Invalidate(t) ==
    /\ th[t].op = "trigger"
    /\ ~Free(t)
    /\ th[t].valid
    /\ Set(t, [th[t] EXCEPT !.valid = FALSE,
                            !.inv_at = IF th[t].pc = "debounce" THEN th[t].i
                                       ELSE DebounceChecks,
                            !.inv_pc = th[t].pc])
    /\ UNCHANGED <<cfgVars, cache_timeout, cache_file, now, ticks, remote, failures,
                   shown, refreshOffered, missCompleted, wakeAt, filterVars, auxVars>>

\* the loop without its validity check
DebounceNextM(valid, i) == IF i + 1 < DebounceChecks THEN "debounce" ELSE "get_results"

\* what one round of the loop does after its sleep(0.01): return, go round
\* again, or leave the loop
DebounceNext(valid, i) ==
    IF ~valid THEN "done"
    ELSE IF i + 1 < DebounceChecks THEN "debounce"
    ELSE "get_results"

Debounce(t) ==
    /\ th[t].pc = "debounce"
    /\ Set(t, [th[t] EXCEPT !.i = th[t].i + 1,
                            !.pc = DebounceNext(th[t].valid, th[t].i)])
    /\ UNCHANGED <<cfgVars, cache_timeout, cache_file, now, ticks, remote, failures,
                   shown, refreshOffered, missCompleted, wakeAt, filterVars, auxVars>>

(***************************************************************************)
(* get_results, _get_cached_results, refresh_cache, fetch_results.         *)
(***************************************************************************)
\* the condition of _get_cached_results
CacheHit == cache_file.exists /\ cache_timeout >= now

\* a refresh that consults the TTL check first and leaves a fresh entry alone
BeginRefreshM(t, r) ==
    IF CacheHit
      THEN /\ cache_timeout' = cache_timeout
           /\ Set(t, [r EXCEPT !.pc = IF r.op = "routine" THEN "sleep" ELSE "done"])
      ELSE /\ cache_timeout' = now + cache_length_
           /\ Set(t, [r EXCEPT !.pc = "fetch", !.purpose = "refresh", !.url = FirstUrl,
                                !.fetches = r.fetches + 1])

\* refresh_cache up to the first request: fetch_results builds the generator,
\* cache_timeout is set, and the list comprehension then drives the requests
BeginRefresh(t, r) ==
    /\ cache_timeout' = now + cache_length_
    /\ Set(t, [r EXCEPT !.pc = "fetch", !.purpose = "refresh", !.url = FirstUrl,
                         !.fetches = r.fetches + 1])

\* get_results taking the cached path whatever the setting
UseCacheM(flag) == TRUE

\* the condition of get_results
UseCache(flag) == flag

GetResults(t) ==
    /\ th[t].pc = "get_results"
    /\ th[t].op = "trigger"
    /\ LET r == [th[t] EXCEPT !.caching = IF cache_results_ THEN "on" ELSE "off"]
       IN  IF UseCache(cache_results_)
             THEN IF CacheHit
                    THEN /\ Set(t, [r EXCEPT !.pc = "read_cache",
                                            !.hit = IF now < cache_timeout THEN "before"
                                                    ELSE "at"])
                         /\ UNCHANGED cache_timeout
                    ELSE BeginRefresh(t, r)
             ELSE /\ Set(t, [r EXCEPT !.pc = "fetch", !.purpose = "direct",
                                      !.url = FirstUrl, !.fetches = r.fetches + 1])
                  /\ UNCHANGED cache_timeout
    /\ UNCHANGED <<cfgVars, cache_file, now, ticks, remote, failures, shown,
                   refreshOffered, missCompleted, wakeAt, filterVars, auxVars>>

\* where a handler goes on once the list is in hand
AfterData(op) == IF op \in {"trigger", "global"} THEN "add" ELSE
                 IF op = "routine" THEN "sleep" ELSE "done"

\* read_cache
ReadCache(t) ==
    /\ th[t].pc = "read_cache"
    /\ IF ~cache_file.exists
         THEN Set(t, [th[t] EXCEPT !.pc = "done", !.err = "FileNotFoundError"])
         ELSE IF ~IsJson(cache_file.text)
           THEN Set(t, [th[t] EXCEPT !.pc = "done", !.reads = th[t].reads + 1,
                                     !.err = "JSONDecodeError"])
           ELSE Set(t, [th[t] EXCEPT !.pc = "add", !.reads = th[t].reads + 1,
                                     !.acc = json_load(cache_file.text)])
    /\ UNCHANGED <<cfgVars, cache_timeout, cache_file, now, ticks, remote, failures,
                   shown, refreshOffered, missCompleted, wakeAt, filterVars, auxVars>>

\* the url get_articles requests after a non-success answer
UrlAfterFailure(url) == url

\* a fetch that keeps the last page only
CollectM(acc, results) == results

\* fetch_results chains the pages get_articles yields
Collect(acc, results) == acc \o results

\* one round of the loop of get_articles: one GET and what follows from it
GetArticles(t, ok) ==
    /\ th[t].pc = "fetch"
    /\ th[t].url # Null
    /\ IF ok
         THEN LET next == PageNext(remote, th[t].url)
                  r == [th[t] EXCEPT !.gets = th[t].gets + 1,
                                     !.acc = Collect(th[t].acc, PageResults(remote, th[t].url)),
                                     !.url = next]
              IN  /\ Set(t, IF next # Null THEN r
                            ELSE [r EXCEPT !.pc = IF r.purpose = "refresh" THEN "write_open"
                                                  ELSE AfterData(r.op)])
                  /\ UNCHANGED failures
         ELSE /\ failures < MaxFailures
              /\ failures' = failures + 1
              /\ Set(t, [th[t] EXCEPT !.gets = th[t].gets + 1, !.failed = TRUE,
                                      !.url = UrlAfterFailure(th[t].url),
                                      !.pc = IF UrlAfterFailure(th[t].url) = Null
                                             THEN "done" ELSE "fetch"])
    /\ UNCHANGED <<cfgVars, cache_timeout, cache_file, now, ticks, remote, shown,
                   refreshOffered, missCompleted, wakeAt, filterVars, auxVars>>

\* where an exception that nothing catches leaves the thread: the handler has
\* ended, the background thread has died
AfterException(op) == IF op = "routine" THEN "dead" ELSE "done"

\* requests.get raises (no connection, or no answer within its timeout) and
\* nothing catches the exception
GetArticlesRaises(t) ==
    /\ th[t].pc = "fetch"
    /\ th[t].url # Null
    /\ Set(t, [th[t] EXCEPT !.gets = th[t].gets + 1, !.err = "ConnectionError",
                            !.pc = AfterException(th[t].op)])
    /\ UNCHANGED <<cfgVars, cache_timeout, cache_file, now, ticks, remote, failures,
                   shown, refreshOffered, missCompleted, wakeAt, filterVars, auxVars>>

\* write_cache: open(mode "w") creates or truncates the file
WriteOpen(t) ==
    /\ th[t].pc = "write_open"
    /\ cache_file' = [exists |-> TRUE, text |-> <<>>]
    /\ Set(t, [th[t] EXCEPT !.pc = "write_close", !.writes = th[t].writes + 1,
                            !.orphan = FALSE])
    /\ UNCHANGED <<cfgVars, cache_timeout, now, ticks, remote, failures, shown,
                   refreshOffered, missCompleted, wakeAt, filterVars, auxVars>>

\* write_cache: the text reaches the file when the with block closes it
WriteClose(t) ==
    /\ th[t].pc = "write_close"
    /\ IF th[t].orphan
         THEN UNCHANGED cache_file
         ELSE cache_file' = [exists |-> TRUE,
                             text |-> WriteAtStart(cache_file.text, json_dumps(th[t].acc))]
    /\ Set(t, [th[t] EXCEPT !.pc = AfterData(th[t].op)])
    /\ wakeAt' = IF th[t].op = "routine" THEN now + RoutineSleep ELSE wakeAt
    /\ missCompleted' = (missCompleted \/ th[t].op = "trigger")
    /\ UNCHANGED <<cfgVars, cache_timeout, now, ticks, remote, failures, shown,
                   refreshOffered, filterVars, auxVars>>

\* the filter, gen_items and query.add (handleGlobalQuery: the returned items)
AddItems(t) ==
    /\ th[t].pc = "add"
    /\ LET items == FilterIds(th[t].acc, Strip(th[t].qs))
       IN  /\ Set(t, [th[t] EXCEPT !.pc = "done", !.adds = th[t].adds + 1,
                                   !.added = items])
           /\ shown' = shown \cup SeqRange(items)
    /\ UNCHANGED <<cfgVars, cache_timeout, cache_file, now, ticks, remote, failures,
                   refreshOffered, missCompleted, wakeAt, filterVars, auxVars>>

(***************************************************************************)
(* handleGlobalQuery.                                                      *)
(***************************************************************************)
\* a global query that fetches when there is no cache file
GlobalNextM(stripped, is_file) ==
    IF stripped = <<>> THEN "done" ELSE IF is_file THEN "read_cache" ELSE "fetch"

\* the condition of handleGlobalQuery: the cache is read only for a query that
\* is not blank and a cache file that is there; otherwise nothing is returned
GlobalNext(stripped, is_file) ==
    IF stripped # <<>> /\ is_file THEN "read_cache" ELSE "done"

HandleGlobalQuery(t, s) ==
    /\ Free(t)
    /\ Set(t, [Fresh EXCEPT !.op = "global", !.qs = s,
                            !.pc = GlobalNext(Strip(s), cache_file.exists)])
    /\ UNCHANGED <<cfgVars, cache_timeout, cache_file, now, ticks, remote, failures,
                   shown, refreshOffered, missCompleted, wakeAt, filterVars, auxVars>>

(***************************************************************************)
(* The Sonarr plugin's handleTriggerQuery: the search of existing series.  *)
(* The series are the server's list; a series is searched by its title.    *)
(***************************************************************************)
SonarrTriggerQuery(t, s) ==
    /\ Free(t)
    /\ Strip(s) # <<>>
    /\ Set(t, [Fresh EXCEPT !.pc = "debounce", !.op = "sonarr", !.qs = s])
    /\ UNCHANGED <<cfgVars, cache_timeout, cache_file, now, ticks, remote, failures,
                   shown, refreshOffered, missCompleted, wakeAt, filterVars, auxVars>>

\* the X-Api-Key a request carries: requests.get(url, headers=self.headers)
RequestKey(a) == a.headers

\* refresh_series: <<the list>>, or <<>> for the None it returns after a
\* non-success answer
refresh_series(ok) == IF ok THEN <<remote>> ELSE <<>>

\* the else branch after the loop: the generator over refresh_series() and
\* query.add of the items found or of "Series not found"
SonarrSearch(t, ok) ==
    /\ th[t].pc = "get_results"
    /\ th[t].op = "sonarr"
    /\ LET data == refresh_series(ok)
       IN  IF data = <<>>
             THEN Set(t, [th[t] EXCEPT !.pc = AfterException(th[t].op), !.gets = 1,
                                       !.failed = TRUE, !.err = "TypeError"])
             ELSE Set(t, [th[t] EXCEPT !.pc = "done", !.gets = 1, !.adds = 1,
                                       !.added = SelectSeq(data[1], LAMBDA id :
                                            SonarrMatches(Strip(th[t].qs), Bookmark(id)))])
    /\ api' = [api EXCEPT !.sent = RequestKey(api)]
    /\ UNCHANGED <<cfgVars, cache_timeout, cache_file, now, ticks, remote, failures,
                   shown, refreshOffered, missCompleted, wakeAt, filterVars,
                   cache_threads, lookup>>

\* the api_key setter of the Sonarr plugin: the attribute and the stored value
SonarrSetApiKey(value) ==
    /\ api' = [api EXCEPT !.key = value, !.stored = <<value>>]
    /\ UNCHANGED <<cfgVars, cache_timeout, cache_file, now, ticks, remote, failures,
                   shown, refreshOffered, missCompleted, wakeAt, th, filterVars,
                   cache_threads, lookup>>

(***************************************************************************)
(* The actions of an item: gen_items, archive_link, delete_link.           *)
(***************************************************************************)
\* the callbacks gen_items binds to the actions "archive" and "delete"
ActionCallback(name) == IF name = "archive" THEN "archive_link" ELSE "archive_link"

\* the request of the callback
RequestOf(fn) == IF fn = "delete_link" THEN "DELETE" ELSE "POST"

\* a mutation that refreshes whatever the answer
AfterMutationM(ok) == "refresh"

\* archive_link / delete_link after the answer to their request
AfterMutation(ok) == IF ok THEN "refresh" ELSE "done"

ActivateAction(t, name, id, ok) ==
    /\ Free(t)
    /\ id \in shown
    /\ ok => id \in SeqRange(remote)
    /\ LET fn == ActionCallback(name)
           r == [Fresh EXCEPT !.op = fn, !.resp = IF ok THEN "ok" ELSE "fail",
                              !.arg = id, !.req = RequestOf(fn), !.action = name]
       IN  /\ remote' = IF ok THEN RemoveId(remote, id) ELSE remote
           /\ IF AfterMutation(ok) = "refresh"
                THEN BeginRefresh(t, r)
                ELSE /\ Set(t, [r EXCEPT !.pc = "done"])
                     /\ UNCHANGED cache_timeout
    /\ UNCHANGED <<cfgVars, cache_file, now, ticks, failures, shown, refreshOffered,
                   missCompleted, wakeAt, filterVars, auxVars>>

\* the action of the "Refresh cache" item
RefreshAction(t) ==
    /\ Free(t)
    /\ refreshOffered
    /\ BeginRefresh(t, [Fresh EXCEPT !.op = "refresh"])
    /\ UNCHANGED <<cfgVars, cache_file, now, ticks, remote, failures, shown,
                   refreshOffered, missCompleted, wakeAt, filterVars, auxVars>>

(***************************************************************************)
(* cache_routine, the background thread.                                   *)
(***************************************************************************)
Routine(t) ==
    /\ th[t].pc = "routine"
    /\ IF ~thread_stop
         THEN /\ BeginRefresh(t, [Fresh EXCEPT !.op = "routine"])
              /\ UNCHANGED wakeAt
         ELSE /\ Set(t, [Fresh EXCEPT !.op = "routine", !.pc = "sleep"])
              /\ wakeAt' = now + RoutineSleep
              /\ UNCHANGED cache_timeout
    /\ UNCHANGED <<cfgVars, cache_file, now, ticks, remote, failures, shown,
                   refreshOffered, missCompleted, filterVars, auxVars>>

Wake(t) ==
    /\ th[t].pc = "sleep"
    /\ now >= wakeAt
    /\ Set(t, [th[t] EXCEPT !.pc = "routine"])
    /\ UNCHANGED <<cfgVars, cache_timeout, cache_file, now, ticks, remote, failures,
                   shown, refreshOffered, missCompleted, wakeAt, filterVars, auxVars>>

(***************************************************************************)
(* The Paperless plugin (src/paperless/__init__.py): its __init__, its     *)
(* auto_cache property and its cache_routine.  It has no thread_stop; its  *)
(* refresh_cache, fetch_request and write_file go the way of the steps     *)
(* above.                                                                  *)
(***************************************************************************)
\* __init__: the background thread is created only when both settings are on
PaperlessInit(stored) ==
    /\ config = stored
    /\ cache_results_ = OrBool(stored.cache_results, TRUE)
    /\ cache_length_ = OrInt(stored.cache_length, DefaultCacheLength)
    /\ auto_cache_ = OrBool(stored.auto_cache, FALSE)
    /\ thread_stop = FALSE
    /\ cache_threads = IF OrBool(stored.cache_results, TRUE) /\ OrBool(stored.auto_cache, FALSE)
                       THEN 1 ELSE 0
    /\ cache_timeout = now
    /\ wakeAt = 0
    /\ th = [t \in Threads |->
               IF t = "bg" /\ OrBool(stored.cache_results, TRUE)
                           /\ OrBool(stored.auto_cache, FALSE)
                 THEN [Fresh EXCEPT !.pc = "routine", !.op = "routine"]
                 ELSE Fresh]

\* the function decorated with @cache_results.setter and named auto_cache
PaperlessSetAutoCache(value) ==
    /\ auto_cache_' = value
    /\ config' = [config EXCEPT !.auto_cache = <<value>>]
    /\ UNCHANGED <<cache_results_, cache_length_, thread_stop, cache_timeout, cache_file,
                   now, ticks, remote, failures, shown, refreshOffered, missCompleted,
                   wakeAt, th, filterVars, auxVars>>

\* what reading plugin.auto_cache returns: cache_results.setter(f) is a copy of
\* the cache_results property with f as its setter, so the attribute named
\* auto_cache has the getter of cache_results
PaperlessAutoCache == cache_results_

\* cache_routine: refresh_cache on every round of the loop
PaperlessRoutine(t) ==
    /\ th[t].pc = "routine"
    /\ BeginRefresh(t, [Fresh EXCEPT !.op = "routine"])
    /\ UNCHANGED <<cfgVars, cache_file, now, ticks, remote, failures, shown,
                   refreshOffered, missCompleted, wakeAt, filterVars, auxVars>>

(***************************************************************************)
(* The Paperless plugin's lookup files: parse_tag and parse_type turn the  *)
(* ids of a document into names.  The server has the tags and the document *)
(* types 1..NLookup; the name of each says what it is the name of.  A      *)
(* lookup file holds a list of {id, name} entries.                         *)
(***************************************************************************)
NLookup == 3

\* what fetch_tags and fetch_types yield
ServerTags == {[id |-> k, name |-> [of |-> "tag", id |-> k]] : k \in 1..NLookup}

ServerTypes == {[id |-> k, name |-> [of |-> "type", id |-> k]] : k \in 1..NLookup}

\* read_file: <<the list>>, or <<>> for the None it returns when there is no file
read_file(file) == IF file.exists THEN <<file.entries>> ELSE <<>>

\* `not parsed_file`: None or an empty list
NotParsed(parsed) == parsed = <<>> \/ parsed[1] = {}

\* write_file
write_file(data) == [exists |-> TRUE, entries |-> data]

\* next(parsed["name"] for parsed in parsed_file if parsed["id"] == id), which
\* has no default
NextName(entries, id) ==
    IF \E e \in entries : e.id = id
      THEN [err |-> "none", name |-> (CHOOSE e \in entries : e.id = id).name]
      ELSE [err |-> "StopIteration", name |-> NoName]

\* parse_tag for a tag id that is not 0
ParseTag(id) ==
    /\ LET parsed == read_file(lookup.tag_file)
       IN  lookup' = IF NotParsed(parsed)
                       THEN [lookup EXCEPT !.tag_file = write_file(ServerTags),
                                           !.kind = "tag", !.id = id,
                                           !.out = NextName(ServerTags, id)]
                       ELSE [lookup EXCEPT !.kind = "tag", !.id = id,
                                           !.out = NextName(parsed[1], id)]
    /\ UNCHANGED <<cfgVars, cache_timeout, cache_file, now, ticks, remote, failures,
                   shown, refreshOffered, missCompleted, wakeAt, th, filterVars,
                   cache_threads, api>>

\* parse_type for a document-type id that is not 0: it reads self.tag_file,
\* and refresh_types writes self.type_file
ParseType(id) ==
    /\ LET parsed == read_file(lookup.tag_file)
       IN  lookup' = IF NotParsed(parsed)
                       THEN [lookup EXCEPT !.type_file = write_file(ServerTypes),
                                           !.kind = "type", !.id = id,
                                           !.out = NextName(ServerTypes, id)]
                       ELSE [lookup EXCEPT !.kind = "type", !.id = id,
                                           !.out = NextName(parsed[1], id)]
    /\ UNCHANGED <<cfgVars, cache_timeout, cache_file, now, ticks, remote, failures,
                   shown, refreshOffered, missCompleted, wakeAt, th, filterVars,
                   cache_threads, api>>

(***************************************************************************)
(* Specifications.  Each starts from the plugin as __init__ leaves it.     *)
(***************************************************************************)
QueryStrings == {<<>>, <<"a">>, <<" ", "A">>}

NoConfig == [cache_results |-> <<>>, cache_length |-> <<>>, auto_cache |-> <<>>]

ServerList(n) == [k \in 1..n |-> k]

InitWorld(list) ==
    /\ now = 0
    /\ ticks = 0
    /\ remote = list
    /\ failures = 0
    /\ shown = {}
    /\ refreshOffered = FALSE
    /\ missCompleted = FALSE
    /\ cache_file = Absent
    /\ fquery = <<>>
    /\ fitem = Bookmark(1)
    /\ fout = NoOutcome
    /\ lookup = NoLookup
    /\ api = NoApi

(***************************************************************************)
(* Spec: a query thread, the thread that runs the actions of the items,    *)
(* and the background thread, interleaved; the server answers every list   *)
(* request successfully.                                                   *)
(***************************************************************************)
Init ==
    /\ InitWorld(ServerList(NItems))
    /\ \E auto \in {<<>>, <<TRUE>>} : InitPlugin([NoConfig EXCEPT !.auto_cache = auto])

Next ==
    \/ HandleTriggerBlank("q1", <<>>)
    \/ HandleTriggerQuery("q1", <<"a">>)
    \/ Debounce("q1")
    \/ GetResults("q1")
    \/ \E t \in Threads : ReadCache(t)
    \/ \E t \in Threads : GetArticles(t, TRUE)
    \/ \E t \in Threads : WriteOpen(t)
    \/ \E t \in Threads : WriteClose(t)
    \/ AddItems("q1")
    \/ HandleGlobalQuery("q1", <<"a">>)
    \/ \E name \in {"archive", "delete"}, id \in 1..NItems, ok \in BOOLEAN :
          ActivateAction("q2", name, id, ok)
    \/ RefreshAction("q2")
    \/ Routine("bg")

Spec == Init /\ [][Next]_vars

(***************************************************************************)
(* SpecQuery: one query thread handling one query after the other, the     *)
(* host invalidating queries, and the cache_results setting being changed. *)
(***************************************************************************)
MaxPages == 3

InitQuery ==
    /\ \E n \in 0..(MaxPages * PageSize) : InitWorld(ServerList(n))
    /\ InitPlugin(NoConfig)

NextQuery ==
    \/ \E s \in QueryStrings : HandleTriggerBlank("q1", s)
    \/ \E s \in QueryStrings : HandleTriggerQuery("q1", s)
    \/ Invalidate("q1")
    \/ Debounce("q1")
    \/ GetResults("q1")
    \/ ReadCache("q1")
    \/ \E ok \in BOOLEAN : GetArticles("q1", ok)
    \/ WriteOpen("q1")
    \/ WriteClose("q1")
    \/ AddItems("q1")
    \/ \E v \in BOOLEAN : SetCacheResults(v)

SpecQuery == InitQuery /\ [][NextQuery]_vars

(***************************************************************************)
(* SpecAction: one thread handling queries and the actions of the items    *)
(* it has shown, one after the other, while time passes and cache_length   *)
(* is changed.                                                             *)
(***************************************************************************)
CacheLengths == {1, 2 * RoutineSleep}

NextAction ==
    \/ HandleTriggerQuery("q1", <<"a">>)
    \/ Debounce("q1")
    \/ GetResults("q1")
    \/ ReadCache("q1")
    \/ \E ok \in BOOLEAN : GetArticles("q1", ok)
    \/ WriteOpen("q1")
    \/ WriteClose("q1")
    \/ AddItems("q1")
    \/ \E name \in {"archive", "delete"}, id \in 1..NItems, ok \in BOOLEAN :
          ActivateAction("q1", name, id, ok)
    \/ \E v \in CacheLengths : SetCacheLength(v)
    \/ \E d \in TickSteps : Tick(d)

InitAction == InitWorld(ServerList(NItems)) /\ InitPlugin(NoConfig)

SpecAction == InitAction /\ [][NextAction]_vars

(***************************************************************************)
(* SpecFault: the plugin starts with the cache file an earlier run left    *)
(* behind (none, a whole one, or the empty one of a run that ended between *)
(* the open and the close of write_cache); one thread handles queries,     *)
(* the server may answer with a non-success status or not at all, and time *)
(* passes.                                                                 *)
(***************************************************************************)
LeftFiles ==
    {Absent,
     [exists |-> TRUE, text |-> json_dumps(ServerList(1))],
     [exists |-> TRUE, text |-> <<>>]}

InitFault ==
    /\ now = 0
    /\ ticks = 0
    /\ remote = ServerList(NItems)
    /\ failures = 0
    /\ shown = {}
    /\ refreshOffered = FALSE
    /\ missCompleted = FALSE
    /\ cache_file \in LeftFiles
    /\ fquery = <<>>
    /\ fitem = Bookmark(1)
    /\ fout = NoOutcome
    /\ lookup = NoLookup
    /\ api = NoApi
    /\ InitPlugin(NoConfig)

NextFault ==
    \/ HandleTriggerQuery("q1", <<"a">>)
    \/ SonarrTriggerQuery("q1", <<"a">>)
    \/ Debounce("q1")
    \/ GetResults("q1")
    \/ \E ok \in BOOLEAN : SonarrSearch("q1", ok)
    \/ ReadCache("q1")
    \/ \E ok \in BOOLEAN : GetArticles("q1", ok)
    \/ GetArticlesRaises("q1")
    \/ WriteOpen("q1")
    \/ WriteClose("q1")
    \/ AddItems("q1")
    \/ \E s \in QueryStrings : HandleGlobalQuery("q1", s)
    \/ \E d \in TickSteps : Tick(d)

SpecFault == InitFault /\ [][NextFault]_vars

(***************************************************************************)
(* SpecTimer: the background thread of cache_routine, its hourly sleep,    *)
(* the auto_cache and cache_results settings being changed while it runs,  *)
(* and a server that may answer with a non-success status or not at all.   *)
(***************************************************************************)
InitTimer ==
    /\ InitWorld(ServerList(NItems))
    /\ \E auto \in {<<>>, <<TRUE>>, <<FALSE>>}, len \in {<<>>, <<2 * RoutineSleep>>} :
          InitPlugin([NoConfig EXCEPT !.auto_cache = auto, !.cache_length = len])

NextTimer ==
    \/ Routine("bg")
    \/ Wake("bg")
    \/ \E ok \in BOOLEAN : GetArticles("bg", ok)
    \/ GetArticlesRaises("bg")
    \/ WriteOpen("bg")
    \/ WriteClose("bg")
    \/ \E v \in BOOLEAN : SetAutoCache(v)
    \/ \E v \in BOOLEAN : SetCacheResults(v)
    \/ \E d \in TickSteps : Tick(d)

SpecTimer == InitTimer /\ [][NextTimer]_vars

(***************************************************************************)
(* SpecConfig: the settings being changed through their setters and the    *)
(* plugin being constructed again from the stored configuration, while the *)
(* background thread runs and one thread handles queries and the actions   *)
(* of the items.                                                           *)
(***************************************************************************)
ConfigLengths == {0, 1}

InitConfig == InitWorld(ServerList(1)) /\ InitPlugin(NoConfig)

NextConfig ==
    \/ \E v \in BOOLEAN : SetCacheResults(v)
    \/ \E v \in ConfigLengths : SetCacheLength(v)
    \/ \E v \in BOOLEAN : SetAutoCache(v)
    \/ Restart
    \/ Routine("bg")
    \/ Wake("bg")
    \/ HandleGlobalQuery("q1", <<"a">>)
    \/ ReadCache("q1")
    \/ AddItems("q1")
    \/ \E name \in {"archive", "delete"}, id \in 1..NItems :
          ActivateAction("q1", name, id, TRUE)
    \/ \E t \in {"q1", "bg"} : GetArticles(t, TRUE)
    \/ \E t \in {"q1", "bg"} : WriteOpen(t)
    \/ \E t \in {"q1", "bg"} : WriteClose(t)
    \/ Tick(RoutineSleep)

SpecConfig == InitConfig /\ [][NextConfig]_vars

(***************************************************************************)
(* SpecKey: the Sonarr plugin constructed with a stored api_key, its        *)
(* api_key being changed through the setter, and searches being made.      *)
(***************************************************************************)
ApiKeys == {0, 1, 2}

InitKey ==
    /\ now = 0
    /\ ticks = 0
    /\ remote = ServerList(NItems)
    /\ failures = 0
    /\ shown = {}
    /\ refreshOffered = FALSE
    /\ missCompleted = FALSE
    /\ cache_file = Absent
    /\ fquery = <<>>
    /\ fitem = Bookmark(1)
    /\ fout = NoOutcome
    /\ lookup = NoLookup
    /\ api \in {SonarrInit(k) : k \in ApiKeys}
    /\ InitPlugin(NoConfig)

NextKey ==
    \/ \E v \in ApiKeys : SonarrSetApiKey(v)
    \/ \E s \in QueryStrings : SonarrTriggerQuery("q1", s)
    \/ Debounce("q1")
    \/ \E ok \in BOOLEAN : SonarrSearch("q1", ok)

SpecKey == InitKey /\ [][NextKey]_vars

(***************************************************************************)
(* SpecLookup: the Paperless plugin started with the lookup files an       *)
(* earlier run left behind (none, or a list of some of the server's tags   *)
(* or types), resolving tag ids and document-type ids.                     *)
(***************************************************************************)
LeftLookups(all) == {NoFile} \cup {write_file(e) : e \in SUBSET all}

InitLookup ==
    /\ now = 0
    /\ ticks = 0
    /\ remote = ServerList(NItems)
    /\ failures = 0
    /\ shown = {}
    /\ refreshOffered = FALSE
    /\ missCompleted = FALSE
    /\ cache_file = Absent
    /\ fquery = <<>>
    /\ fitem = Bookmark(1)
    /\ fout = NoOutcome
    /\ \E tags \in LeftLookups(ServerTags), types \in LeftLookups(ServerTypes) :
          lookup = [NoLookup EXCEPT !.tag_file = tags, !.type_file = types]
    /\ api = NoApi
    /\ PaperlessInit(NoConfig)

NextLookup ==
    \/ \E id \in 1..NLookup : ParseTag(id)
    \/ \E id \in 1..NLookup : ParseType(id)

SpecLookup == InitLookup /\ [][NextLookup]_vars

(***************************************************************************)
(* SpecLive: the plugin constructed with auto_cache stored as true and no  *)
(* query made: the background thread alone, a server that answers every    *)
(* request, and time passing by the minute.  The background thread is      *)
(* scheduled fairly: a step it can take is taken in the end.               *)
(***************************************************************************)
InitLive ==
    /\ \E n \in 0..(MaxPages * PageSize) : InitWorld(ServerList(n))
    /\ InitPlugin([NoConfig EXCEPT !.auto_cache = <<TRUE>>])

BackgroundStep ==
    \/ Routine("bg")
    \/ GetArticles("bg", TRUE)
    \/ WriteOpen("bg")
    \/ WriteClose("bg")

NextLive ==
    \/ BackgroundStep
    \/ Tick(1)

SpecLive == InitLive /\ [][NextLive]_vars /\ WF_vars(BackgroundStep)

(***************************************************************************)
(* SpecPaperless: the Paperless plugin's background thread and its         *)
(* auto_cache and cache_results settings being changed while it runs.      *)
(***************************************************************************)
InitPaperless ==
    /\ InitWorld(ServerList(NItems))
    /\ \E auto \in {<<>>, <<TRUE>>, <<FALSE>>} :
          PaperlessInit([NoConfig EXCEPT !.auto_cache = auto])

NextPaperless ==
    \/ PaperlessRoutine("bg")
    \/ Wake("bg")
    \/ GetArticles("bg", TRUE)
    \/ WriteOpen("bg")
    \/ WriteClose("bg")
    \/ \E v \in BOOLEAN : PaperlessSetAutoCache(v)
    \/ \E v \in BOOLEAN : SetCacheResults(v)
    \/ \E d \in TickSteps : Tick(d)

SpecPaperless == InitPaperless /\ [][NextPaperless]_vars

(***************************************************************************)
(* SpecFilter: the query filter applied to one item and one query string.  *)
(***************************************************************************)
FilterItems ==
    [id : {1},
     url : {<<"b">>, <<"A">>},
     title : {<<>>, <<"a">>, <<"A", "b">>},
     tag_names : {<<>>, << <<"a">> >>, << <<"b">>, <<"A">> >>}]

InitFilter ==
    /\ now = 0
    /\ ticks = 0
    /\ remote = <<>>
    /\ failures = 0
    /\ shown = {}
    /\ refreshOffered = FALSE
    /\ missCompleted = FALSE
    /\ cache_file = Absent
    /\ InitPlugin(NoConfig)
    /\ fquery \in StringsUpTo(MaxQueryLen)
    /\ fitem \in FilterItems
    /\ fout = NoOutcome
    /\ lookup = NoLookup
    /\ api = NoApi

NextFilter == LinkdingFilter \/ SonarrFilter

SpecFilter == InitFilter /\ [][NextFilter]_vars

(***************************************************************************)
(* Claims checked under Spec.                                              *)
(***************************************************************************)
Workers == {"q1", "q2"}

\* thread t takes a step of its handler (the host's Invalidate and the unlink
\* of the cache_results setter touch valid and orphan only)
OwnStep(t) ==
    /\ th'[t] # th[t]
    /\ th'[t].valid = th[t].valid
    /\ th'[t].orphan = th[t].orphan

\* C1: once a get_results has missed and completed its refresh, a get_results
\* that finds the cache file present and now < cache_timeout, and whose file is
\* still there when it is read, returns the cached items and issues no request.
C1_ServedFromCache ==
    \A t \in Workers :
        (missCompleted /\ th[t].hit = "before" /\ th[t].pc \in {"add", "done"}
            /\ th[t].err # "FileNotFoundError")
        => (th[t].err = "none" /\ th[t].gets = 0 /\ th[t].fetches = 0)

\* a thread is executing refresh_cache
InRefresh(t) == th[t].purpose = "refresh" /\ th[t].pc \in {"fetch", "write_open", "write_close"}

\* C5: at most one thread at a time is fetching the list for a refresh of the
\* cache (the executions of refresh_cache are serialized).
C5_RefreshSerialized ==
    /\ Cardinality({t \in Threads : th[t].purpose = "refresh" /\ th[t].pc = "fetch"}) <= 1
    /\ Cardinality({t \in Threads : InRefresh(t)}) <= 1

\* C6: no reader of the cache file finds it empty or partly written.
C6_ReaderSeesWholeEntry == \A t \in Threads : th[t].err # "JSONDecodeError"

\* what a get_results would return in the state reached, the server answering
\* every request
NextGetResults(file, timeout, list) ==
    IF cache_results_ /\ file.exists /\ timeout >= now
      THEN IF IsJson(file.text) THEN json_load(file.text) ELSE <<Null>>
      ELSE list

\* C8: a mutation whose request succeeds refreshes whatever the freshness of
\* the cache, and when the action returns the cache file holds the list it
\* fetched after the mutation, which is what the next get_results returns.
C8_MutationRefreshes ==
    [][\A t \in Workers :
          /\ (th'[t].resp = "ok" /\ OwnStep(t) /\ Free(t))
                => (th'[t].pc = "fetch" /\ th'[t].purpose = "refresh")
          /\ (th[t].resp = "ok" /\ th[t].pc = "write_close" /\ th'[t].pc = "done")
                => /\ cache_file'.exists
                   /\ cache_file'.text = json_dumps(th[t].acc)
                   /\ NextGetResults(cache_file', cache_timeout', remote') = th[t].acc
      ]_vars

(***************************************************************************)
(* Claims checked under SpecQuery.                                         *)
(***************************************************************************)
\* C2: a get_results that finds caching disabled starts exactly one fetch
\* sequence, whatever the cache file holds, and neither reads nor writes the
\* cache file.
C2_DisabledFetchesOnce ==
    \A t \in Workers :
        th[t].caching = "off"
        => /\ th[t].purpose = "direct"
           /\ th[t].fetches = 1
           /\ th[t].hit = "none"
           /\ th[t].reads = 0
           /\ th[t].writes = 0
           /\ th[t].pc \in {"fetch", "add", "done"}
           /\ th[t].pc # "fetch" => th[t].gets >= 1

C2_Witness ==
    \E t \in Workers :
        /\ th[t].caching = "off"
        /\ th[t].pc = "done"
        /\ th[t].adds = 1
        /\ cache_file.exists

\* the pages the server cuts a list into
Pages(list) == IF list = <<>> THEN 1 ELSE (Len(list) + PageSize - 1) \div PageSize

\* C3: while every page request is answered successfully, the fetch has
\* issued one GET per page it has passed and holds those pages' results in
\* order; it ends at the null cursor with one GET per page and the whole list.
C3_FetchFollowsPages ==
    \A t \in Workers :
        ~th[t].failed
        => /\ (th[t].pc = "fetch")
                => /\ th[t].url # Null
                   /\ th[t].gets * PageSize = th[t].url
                   /\ th[t].acc = SubSeq(remote, 1, th[t].url)
           /\ (th[t].purpose \in {"refresh", "direct"} /\ th[t].pc # "fetch")
                => /\ th[t].url = Null
                   /\ th[t].gets = Pages(remote)
                   /\ th[t].acc = remote

C3_Witness ==
    \E t \in Workers :
        /\ ~th[t].failed
        /\ th[t].pc = "done"
        /\ th[t].purpose = "direct"
        /\ th[t].gets = MaxPages
        /\ Len(th[t].acc) = MaxPages * PageSize
        /\ th[t].acc = remote

\* C4: once a page request has been answered with a non-success status, the
\* operation issues no further GET: its next step ends it, without items.
C4_FailureAborts ==
    [][\A t \in Workers :
          (th[t].failed /\ ~Free(t) /\ OwnStep(t))
          => /\ th'[t].gets = th[t].gets
             /\ th'[t].pc = "done"
             /\ th'[t].adds = 0
             /\ th'[t].writes = 0
      ]_vars

\* C7: a trigger query that the host invalidates before one of the 50 checks
\* returns at that check, the first after the invalidation, having issued no
\* request, read or written no cache file, filtered nothing and added nothing.
C7_CancelledDoesNothing ==
    \A t \in Workers :
        (th[t].op = "trigger" /\ th[t].inv_at # Null /\ th[t].inv_at < DebounceChecks)
        => /\ th[t].pc \in {"debounce", "done"}
           /\ th[t].pc = "debounce" => th[t].i = th[t].inv_at
           /\ th[t].pc = "done" => th[t].i = th[t].inv_at + 1
           /\ th[t].fetches = 0
           /\ th[t].gets = 0
           /\ th[t].reads = 0
           /\ th[t].writes = 0
           /\ th[t].adds = 0
           /\ th[t].added = <<>>

C7_Witness ==
    \E t \in Workers :
        /\ th[t].op = "trigger"
        /\ th[t].pc = "done"
        /\ th[t].inv_at = DebounceChecks - 1
        /\ th[t].i = DebounceChecks
        /\ th[t].adds = 0

\* C15: a trigger query that the host invalidates after the debounce loop and
\* before its data is in hand (during get_results, the cache read, the fetch or
\* the cache write) adds nothing.
C15_InvalidatedResultsDiscarded ==
    \A t \in Workers :
        (th[t].op = "trigger"
            /\ th[t].inv_pc \in {"get_results", "read_cache", "fetch", "write_open",
                                 "write_close"})
        => th[t].adds = 0

\* C11: when the cache_results setter returns from being given false, there is
\* no cache file, whether or not there was one; and when there was none, the
\* call changes nothing but the setting and its stored value.
C11_DisableClearsCache ==
    [][(~cache_results_' /\ (cache_results_ \/ config' # config))
          => /\ ~cache_file'.exists
             /\ ~cache_file.exists
                  => /\ cache_file' = cache_file
                     /\ th' = th
                     /\ <<cache_length_, auto_cache_, thread_stop, cache_timeout>>' =
                            <<cache_length_, auto_cache_, thread_stop, cache_timeout>>
                     /\ <<now, remote, failures, shown, refreshOffered>>' =
                            <<now, remote, failures, shown, refreshOffered>>
      ]_vars

\* caching has been switched off after a refresh had written the cache file
C11_Witness ==
    /\ ~cache_results_
    /\ config.cache_results = <<FALSE>>
    /\ ~cache_file.exists
    /\ \E t \in Workers : th[t].pc = "done" /\ th[t].writes = 1 /\ ~th[t].orphan
                           /\ th[t].caching = "on"

(***************************************************************************)
(* Claims checked under SpecAction.                                        *)
(***************************************************************************)
\* C9: a mutation whose request is answered with a non-success status ends
\* there: it starts no fetch, and the cache file and cache_timeout are as they
\* were before it.
C9_FailedMutationLeavesCache ==
    [][\A t \in Workers :
          (th'[t].resp = "fail" /\ OwnStep(t))
          => /\ th'[t].pc = "done"
             /\ th'[t].fetches = 0
             /\ th'[t].gets = 0
             /\ th'[t].writes = 0
             /\ cache_file' = cache_file
             /\ cache_timeout' = cache_timeout
             /\ remote' = remote
      ]_vars

C9_Witness ==
    \E t \in Workers :
        /\ th[t].resp = "fail"
        /\ th[t].pc = "done"
        /\ th[t].arg \in SeqRange(remote)
        /\ cache_file.exists
        /\ IsJson(cache_file.text)
        /\ cache_timeout > now

\* C18: a get_results that finds the cache file at exactly now = cache_timeout
\* fetches from the server and does not read the file.
C18_BoundaryExclusive ==
    \A t \in Workers :
        th[t].hit = "at" => (th[t].fetches = 1 /\ th[t].reads = 0 /\ th[t].pc # "read_cache")

(***************************************************************************)
(* Claims checked under SpecFault.                                         *)
(***************************************************************************)
\* C12: no failure of the fetch of a trigger query leaves handleTriggerQuery
\* as an exception.
C12_FetchFailureContained ==
    \A t \in Workers :
        th[t].op \in {"trigger", "sonarr"}
        => th[t].err \notin {"ConnectionError", "TypeError"}

\* C14: a read of a cache file that is there but is not a JSON document does
\* not raise; within get_results it is followed by a fetch.
C14_MalformedCacheRefetched ==
    [][\A t \in Workers :
          (th[t].pc = "read_cache" /\ OwnStep(t) /\ cache_file.exists
              /\ ~IsJson(cache_file.text))
          => /\ th'[t].err = "none"
             /\ th[t].op = "trigger" => (th'[t].pc = "fetch" /\ th'[t].fetches = 1)
      ]_vars

\* C20: when the fetch of a refresh that get_results began on a stale entry
\* ends in a failure, the file is what it was and the entry is still stale
\* (cache_timeout lies before now, as it did when the refresh began): the next
\* get_results does not take the file for a hit.
C20_FailedRefreshKeepsCache ==
    [][\A t \in Workers :
          (th[t].op = "trigger" /\ th[t].purpose = "refresh" /\ th[t].pc = "fetch"
              /\ cache_file.exists /\ IsJson(cache_file.text)
              /\ th'[t].err = "ConnectionError")
          => /\ cache_file' = cache_file
             /\ cache_timeout' < now'
             /\ ~(cache_file'.exists /\ cache_timeout' >= now')
      ]_vars

(***************************************************************************)
(* Claims checked under SpecTimer.                                         *)
(***************************************************************************)
\* C13: a failure of a background refresh does not end the background thread.
C13_TimerSurvivesFailure == th["bg"].pc # "dead"

\* a step of a refresh under way: the next request, the opening or the closing
\* of the cache file; or the server not answering
RefreshStep(r, r2) ==
    \/ r.pc = "fetch" /\ r2.pc \in {"fetch", "write_open"} /\ r2.gets = r.gets + 1
                      /\ r2.err = "none"
    \/ r.pc = "fetch" /\ r2.err = "ConnectionError"
    \/ r.pc = "write_open" /\ r2.pc = "write_close" /\ r2.writes = r.writes + 1
    \/ r.pc = "write_close" /\ r2.pc = "sleep"

\* C16: while auto_cache is false, cache_routine starts no refresh when it
\* comes round its loop; setting auto_cache to false touches neither the
\* background thread nor the cache, and a refresh under way goes on step by
\* step to its cache write.
C16_AutoCacheOffStopsTimer ==
    [][/\ (~auto_cache_ /\ th["bg"].pc = "routine" /\ OwnStep("bg"))
            => /\ th'["bg"].pc = "sleep"
               /\ th'["bg"].fetches = 0
               /\ cache_timeout' = cache_timeout
               /\ cache_file' = cache_file
       /\ (auto_cache_ /\ ~auto_cache_')
            => /\ th' = th
               /\ cache_file' = cache_file
               /\ cache_timeout' = cache_timeout
               /\ thread_stop'
       /\ (~auto_cache_ /\ InRefresh("bg") /\ OwnStep("bg"))
            => RefreshStep(th["bg"], th'["bg"])
      ]_vars

\* auto_cache was switched off after a background refresh, and the thread has
\* come round its loop at a later hour without starting another
C16_Witness ==
    /\ ~auto_cache_
    /\ config.auto_cache = <<FALSE>>
    /\ cache_file.exists
    /\ th["bg"].pc = "sleep"
    /\ th["bg"].fetches = 0
    /\ now >= RoutineSleep
    /\ wakeAt >= 2 * RoutineSleep

\* C19: while caching is disabled there is no cache file.
C19_DisabledMeansNoFile == ~cache_results_ => ~cache_file.exists

(***************************************************************************)
(* Claims checked under SpecPaperless.                                     *)
(***************************************************************************)
\* C17: in the Paperless plugin, while auto_cache is false the background
\* thread starts no refresh; once auto_cache has been set to true with caching
\* enabled there is a background thread going round its loop; and reading
\* auto_cache gives the value last set.
C17_PaperlessAutoCacheToggles ==
    [][/\ (~auto_cache_ /\ th["bg"].pc = "routine" /\ OwnStep("bg"))
            => th'["bg"].fetches = 0
       /\ (auto_cache_' /\ cache_results_' /\ config'.auto_cache = <<TRUE>>)
            => th'["bg"].op = "routine"
       /\ config'.auto_cache # <<>> => PaperlessAutoCache' = config'.auto_cache[1]
      ]_vars

(***************************************************************************)
(* Claims checked under SpecFilter.                                        *)
(***************************************************************************)
\* the text an item is searched by
SearchableText(by, item) == IF by = "sonarr" THEN item.title ELSE create_filters(item)

\* C10: an item is among the results exactly when the lowercased query is a
\* substring of the item's lowercased searchable text.
C10_CaseInsensitiveFilter ==
    fout.by # "none"
    => (fout.included <=> Contains(LowerStr(SearchableText(fout.by, fitem)),
                                   LowerStr(Strip(fquery))))

(***************************************************************************)
(* Further claims checked under SpecQuery.                                 *)
(***************************************************************************)
\* C21: the cache file never holds a partial result: whenever it exists its
\* content is the complete list of one fully successful fetch (in SpecQuery
\* the server's list does not change, so that list is `remote`).
C21_CacheFileWhole ==
    cache_file.exists
    => /\ IsJson(cache_file.text)
       /\ json_load(cache_file.text) = remote

(***************************************************************************)
(* Further claims checked under SpecTimer.                                 *)
(***************************************************************************)
\* C27: after any sequence of calls of the auto_cache and cache_results
\* setters, thread_stop is clear exactly when auto_cache and cache_results are
\* both true.
C27_StopFlagFollowsSettings == ~thread_stop <=> (auto_cache_ /\ cache_results_)

\* C22: every round of cache_routine that finds thread_stop clear starts a
\* refresh, whether or not the cache entry is still fresh: it goes to the first
\* request without reading the cache and sets cache_timeout to now +
\* cache_length; and the write that ends the refresh leaves the whole fetched
\* list in the cache file.
C22_WakeUpRefreshes ==
    [][/\ (th["bg"].pc = "routine" /\ ~thread_stop /\ OwnStep("bg"))
            => /\ th'["bg"].pc = "fetch"
               /\ th'["bg"].purpose = "refresh"
               /\ th'["bg"].url = FirstUrl
               /\ th'["bg"].fetches = 1
               /\ th'["bg"].reads = 0
               /\ th'["bg"].hit = "none"
               /\ cache_timeout' = now + cache_length_
       /\ (th["bg"].pc = "write_close" /\ ~th["bg"].orphan /\ OwnStep("bg"))
            => cache_file' = [exists |-> TRUE, text |-> json_dumps(remote)]
      ]_vars

\* the thread has woken an hour after a refresh that left the entry valid for
\* two hours, and has started the next refresh with the whole list still in
\* the cache file
C22_Witness ==
    /\ th["bg"].pc = "fetch"
    /\ th["bg"].fetches = 1
    /\ th["bg"].gets = 0
    /\ ~thread_stop
    /\ config.cache_length = <<2 * RoutineSleep>>
    /\ now = RoutineSleep
    /\ wakeAt = RoutineSleep
    /\ cache_timeout = 3 * RoutineSleep
    /\ cache_file = [exists |-> TRUE, text |-> json_dumps(remote)]

(***************************************************************************)
(* Further claims checked under SpecFault.                                 *)
(***************************************************************************)
\* C24: handleGlobalQuery issues no remote request: from its call to its end
\* it sends no request, starts no fetch and opens no file for writing, and its
\* steps leave the cache file and cache_timeout as they are; called with a
\* blank query or with no cache file it ends at once with no items.
C24_GlobalQueryIsLocal ==
    [][/\ th'["q1"].op = "global"
            => /\ th'["q1"].pc \in {"read_cache", "add", "done"}
               /\ th'["q1"].gets = 0
               /\ th'["q1"].fetches = 0
               /\ th'["q1"].writes = 0
               /\ th'["q1"].purpose = "none"
       /\ (th'["q1"].op = "global" /\ th'["q1"] # th["q1"])
            => /\ cache_file' = cache_file
               /\ cache_timeout' = cache_timeout
       /\ (Free("q1") /\ th'["q1"].op = "global" /\ th'["q1"] # th["q1"]
              /\ (Strip(th'["q1"].qs) = <<>> \/ ~cache_file.exists))
            => /\ th'["q1"].pc = "done"
               /\ th'["q1"].adds = 0
               /\ th'["q1"].added = <<>>
               /\ th'["q1"].reads = 0
      ]_vars

\* a global query has returned the matching items of a cache file whose
\* entry has expired, without a request
C24_Witness ==
    /\ th["q1"].op = "global"
    /\ th["q1"].pc = "done"
    /\ th["q1"].adds = 1
    /\ th["q1"].added # <<>>
    /\ th["q1"].reads = 1
    /\ th["q1"].gets = 0
    /\ cache_file.exists
    /\ cache_timeout < now

(***************************************************************************)
(* Claims checked under SpecConfig.                                        *)
(***************************************************************************)
\* C23: a plugin instance has at most one background thread, whatever
\* settings have been changed and whatever queries and actions have run.
C23_OneBackgroundThread ==
    /\ cache_threads <= 1
    /\ Cardinality({t \in Threads : th[t].op = "routine"}) <= 1

\* all three settings have been changed, auto_cache last switched on, an item
\* has been archived, and the one background thread sleeps after its refresh
C23_Witness ==
    /\ cache_threads = 1
    /\ config.auto_cache = <<TRUE>>
    /\ config.cache_results = <<TRUE>>
    /\ config.cache_length # <<>>
    /\ th["q1"].op = "archive_link"
    /\ th["q1"].pc = "done"
    /\ th["bg"].pc = "sleep"
    /\ th["bg"].writes = 1

\* C26: a value written by a setter is the value in effect, also after the
\* plugin has been constructed again from the stored configuration.
C26_SettingsRoundTrip ==
    /\ config.cache_results # <<>> => cache_results_ = config.cache_results[1]
    /\ config.cache_length # <<>> => cache_length_ = config.cache_length[1]
    /\ config.auto_cache # <<>> => auto_cache_ = config.auto_cache[1]

(***************************************************************************)
(* Further claims checked under SpecAction.                                *)
(***************************************************************************)
\* C28: the "delete" action of an item runs delete_link and sends a DELETE
\* for the item's id, the "archive" action runs archive_link and sends a POST;
\* the two send different requests.
C28_ActionsIssueOwnRequest ==
    \A t \in Workers :
        /\ th[t].action = "delete"
             => (th[t].op = "delete_link" /\ th[t].req = "DELETE")
        /\ th[t].action = "archive"
             => (th[t].op = "archive_link" /\ th[t].req = "POST")

(***************************************************************************)
(* Claims checked under SpecKey.                                           *)
(***************************************************************************)
\* C29: every request the plugin sends carries the api_key in effect when it
\* is sent, that is the value the setter last stored.
C29_RequestsCarryCurrentKey ==
    [][th'["q1"].gets > th["q1"].gets => api'.sent = api.key]_vars

(***************************************************************************)
(* Claims checked under SpecLookup.                                        *)
(***************************************************************************)
\* C25: resolving a tag id or a document-type id ends without an exception
\* and with the name of that tag or of that document type, and leaves the id
\* in the lookup file of its kind (refreshed if the id was not in it).
C25_LookupMissRefreshes ==
    lookup.kind # "none"
    => /\ lookup.out.err = "none"
       /\ lookup.out.name = [of |-> lookup.kind, id |-> lookup.id]
       /\ LET file == IF lookup.kind = "tag" THEN lookup.tag_file ELSE lookup.type_file
          IN  file.exists /\ \E e \in file.entries : e.id = lookup.id

(***************************************************************************)
(* Claims checked under SpecLive.                                          *)
(***************************************************************************)
\* the cache file holds the whole list of the server and its entry is fresh
Populated ==
    /\ cache_file.exists
    /\ IsJson(cache_file.text)
    /\ json_load(cache_file.text) = remote
    /\ now < cache_timeout

====
